---- MODULE Spec2Model ----
(***************************************************************************)
(* Media ingestion and storage of the blog backend: UploadService          *)
(* (internal/media/service/upload.go), ProcessorService                    *)
(* (internal/media/service/processor.go), the media registry               *)
(* (mediaRepository) and the usage tracker (mediaUsageRepository).         *)
(*                                                                         *)
(* Every service call runs on its own worker.  A call is one action whose  *)
(* CASE arms are the stretches of the handler between two accesses to the  *)
(* shared state (the registry, the usage table, the disk); pc[w] is the    *)
(* worker's position in the handler, call[w] holds its arguments and       *)
(* locals, and out is what the step just taken returned to its caller      *)
(* (NoRet when the step returned nothing).  firstUpload remembers, for     *)
(* each content hash, the ID that the first successful UploadFile of that  *)
(* content returned: it is what a caller comparing two results holds.      *)
(***************************************************************************)
EXTENDS Integers, Sequences, FiniteSets, TLC

\* ------------------------------------------------------------------ bounds
MaxMedia == 2
MaxUsages == 2

MaxDim == 4
\* The longest list of files a batch upload gets all of which it uploads.
MaxBatchLen == 2

\* ------------------------------------------------------- program constants
MaxFileSize == 10485760
\* len of "{root}/2006/01/02/ab/" and of the hex digits after the shard.
DirLen == 22
HashNameLen == 30
\* The length of an encoded result image.
EncodedSize == 4096
\* OptimizeImage: the file size above which it compresses harder, the width
\* above which it resizes, and the width it resizes to.
OptimizeSizeLimit == 5242880
OptimizeMaxWidth == 2048
\* UploadMultipleFiles: the most files one call takes.
MaxBatch == 10

\* Two workers: two calls at most are under way at any time.
Workers == {1, 2}
\* A Go pointer (or an optional result): Nil, or Ptr(v) holding v.
Nil == << >>
Ptr(v) == <<v>>
Deref(p) == p[1]

\* ------------------------------------------------------------------ inputs
\* A content is a byte string: what it holds (data), how long it is (len) and
\* what image.Decode / http.DetectContentType find in it (format) and, for
\* an image, its width and height in pixels (size).
PngA == [data |-> <<"pngA">>, len |-> MaxFileSize,     format |-> "png",  size |-> <<4, 3>>]
JpgB == [data |-> <<"jpgB">>, len |-> MaxFileSize - 1, format |-> "jpeg", size |-> <<3, 4>>]
TxtD == [data |-> <<"txtD">>, len |-> 1,               format |-> "none", size |-> <<0, 0>>]
PngC == [data |-> <<"pngC">>, len |-> MaxFileSize + 1, format |-> "png",  size |-> <<4, 3>>]
BigE == [data |-> <<"bigE">>, len |-> MaxFileSize + 2, format |-> "none", size |-> <<0, 0>>]

Contents == {PngA, JpgB, TxtD, PngC, BigE}

\* A file name is its stem and its extension (filepath.Ext).
Filenames == {<<"a", ".png">>, <<"notes", ".txt">>, <<"raw", "">>}

\* The files clients upload: a content under a file name.
Files ==
  { [content |-> PngA, filename |-> <<"a", ".png">>],
    [content |-> PngA, filename |-> <<"raw", "">>],
    [content |-> JpgB, filename |-> <<"raw", "">>],
    [content |-> TxtD, filename |-> <<"notes", ".txt">>],
    [content |-> PngC, filename |-> <<"a", ".png">>],
    [content |-> BigE, filename |-> <<"notes", ".txt">>] }

\* The files and the requests of the calls that race with one another.
RaceFiles ==
  { [content |-> PngA, filename |-> <<"a", ".png">>],
    [content |-> JpgB, filename |-> <<"raw", "">>] }

RaceUploadRequests ==
  { [alt |-> "logo", caption |-> "cap", isPublic |-> Ptr(FALSE), usageType |-> "post_cover", targetID |-> Ptr(7)] }

RaceProcessRequests ==
  { [processType |-> "resize",    width |-> Ptr(100), height |-> Nil, watermarkText |-> "", outputFormat |-> ""],
    [processType |-> "thumbnail", width |-> Nil,      height |-> Nil, watermarkText |-> "", outputFormat |-> ""] }

UploaderIDs == {1}

\* FileUploadRequest values (upload.go:58-64); isPublic is a *bool.
UploadRequests ==
  { [alt |-> "",     caption |-> "",    isPublic |-> Nil,   usageType |-> "post_cover", targetID |-> Nil],
    [alt |-> "logo", caption |-> "cap", isPublic |-> Ptr(FALSE), usageType |-> "post_cover", targetID |-> Ptr(7)],
    [alt |-> "",     caption |-> "",    isPublic |-> Nil,   usageType |-> "",           targetID |-> Nil] }

\* Upload.AllowedTypes values a deployment may configure (config.go:64).
AllowedTypesChoices ==
  { << >>,
    << <<"image/">> >>,
    << <<"text/">>, <<"image/", "png">> >> }

VARIABLES config, media, nextID, usages, nextUsageID, disk, pc, call, out, firstUpload,
          batch

vars == <<config, media, nextID, usages, nextUsageID, disk, pc, call, out, firstUpload,
          batch>>

\* The bytes of a file that os.Create has made and nothing was written to.
EmptyFile == [data |-> << >>, len |-> 0, format |-> "none", size |-> <<0, 0>>]

\* Whether the I/O steps of a call may fail for reasons of their own (a full
\* disk, a lost database connection): never, or at will.
NoFailure == {FALSE}
AnyFailure == BOOLEAN

\* ------------------------------------------------------------ pure helpers
\* filepath.Ext of a file name.
Ext(filename) == filename[2]

\* mime.TypeByExtension; a MIME type is the sequence of its tokens, so that
\* strings.HasPrefix is a prefix test on sequences.
TypeByExtension(ext) ==
  CASE ext = ".png" -> <<"image/", "png">>
    [] ext = ".txt" -> <<"text/", "plain">>
    [] OTHER        -> << >>

\* http.DetectContentType: sniffs the magic number.
DetectContentType(content) ==
  CASE content.format = "png"  -> <<"image/", "png">>
    [] content.format = "jpeg" -> <<"image/", "jpeg">>
    [] OTHER                   -> <<"text/", "plain">>

detectMimeType(filename, content) ==
  LET mimeType == TypeByExtension(Ext(filename))
  IN  IF mimeType = << >> THEN DetectContentType(content) ELSE mimeType

HasPrefix(s, prefix) ==
  /\ Len(prefix) <= Len(s)
  /\ SubSeq(s, 1, Len(prefix)) = prefix

getFileType(mimeType) ==
  IF HasPrefix(mimeType, <<"image/">>) THEN "image"
  ELSE IF HasPrefix(mimeType, <<"video/">>) THEN "video"
  ELSE IF HasPrefix(mimeType, <<"audio/">>) THEN "video"
  ELSE IF \E i \in 1..Len(mimeType) : mimeType[i] \in {"text/", "pdf", "document"}
       THEN "document"
  ELSE "other"

\* An allow-list that lets every type through when it is empty.
isAllowedFileTypeOrEmpty(allowedTypes, mimeType) ==
  \/ allowedTypes = << >>
  \/ \E i \in 1..Len(allowedTypes) : HasPrefix(mimeType, allowedTypes[i])

isAllowedFileType(allowedTypes, mimeType) ==
  \E i \in 1..Len(allowedTypes) : HasPrefix(mimeType, allowedTypes[i])

\* validator.Validate(req) by the struct tags of FileUploadRequest.
ValidUsageTypes ==
  {"post_avatar", "post_cover", "post_content", "moment_content", "user_avatar"}

Validate(req) == req.usageType \in ValidUsageTypes

\* calculateHash: the MD5 digest of the bytes, taken to be collision free.
calculateHash(content) == [alg |-> "md5", of |-> content.data, n |-> content.len]

\* generateStoragePath: {root}/{date}/{hash[:2]}/{hash[2:]}{ext}.  A path is
\* kept as its parts (the date directory is the same for all calls of one
\* day and is left out): the hash the name starts with, the suffixes
\* "_<processType>" that generateProcessedImagePath has added, the extension.
generateStoragePath(filename, hash) ==
  [ hash |-> hash,
    sfx  |-> << >>,
    ext  |-> IF Ext(filename) = "" THEN ".bin" ELSE Ext(filename) ]

\* len(s) of the strings that make up a path.
StrLen(str) ==
  CASE str \in {".png", ".txt", ".bin", ".gif", ".jpg"} -> 4
    [] str = ".jpeg"                                  -> 5
    [] str = "resize"                                 -> 6
    [] str = "compress"                               -> 8
    [] str \in {"watermark", "thumbnail"}             -> 9
    [] OTHER                                          -> 0

RECURSIVE SfxLen(_)
SfxLen(sfx) ==
  IF sfx = << >> THEN 0 ELSE 1 + StrLen(Head(sfx)) + SfxLen(Tail(sfx))

\* len(path): the directory part, the 30 hex digits of hash[2:], the suffixes
\* and the extension.
PathLen(path) == DirLen + HashNameLen + SfxLen(path.sfx) + StrLen(path.ext)

\* A result path that keeps the name of the source.
generateProcessedImagePathInPlace(originalPath, processType, format) ==
  [originalPath EXCEPT !.ext = "." \o format]

\* ProcessorService.generateProcessedImagePath
generateProcessedImagePath(originalPath, processType, format) ==
  [originalPath EXCEPT !.sfx = Append(@, processType), !.ext = "." \o format]

\* ProcessorService.generateProcessedFilename
generateProcessedFilename(originalFilename, processType) ==
  <<originalFilename[1] \o "_" \o processType, Ext(originalFilename)>>

\* ProcessorService.calculateFileHash: "processed_%x" of len(filePath).
calculateFileHash(filePath) == [alg |-> "processed", of |-> << >>, n |-> PathLen(filePath)]

\* ProcessorService.getMimeTypeByFormat
getMimeTypeByFormat(format) ==
  CASE format \in {"jpeg", "jpg"} -> <<"image/", "jpeg">>
    [] format = "png"             -> <<"image/", "png">>
    [] format = "gif"             -> <<"image/", "gif">>
    [] OTHER                      -> <<"image/", "jpeg">>

\* ------------------------------------------------------------------- model
\* model.NewMediaFile
NewMediaFile(filename, storagePath, mimeType, fileType, hash, fileSize, uploaderID) ==
  [ id |-> 0, filename |-> filename, path |-> storagePath, mime |-> mimeType,
    fileType |-> fileType, hash |-> hash, size |-> fileSize,
    uploader |-> uploaderID, status |-> "active", isPublic |-> TRUE,
    alt |-> "", caption |-> "", width |-> Nil, height |-> Nil ]

\* A usage record that loses the target.
NewMediaUsageNoTarget(mediaID, usageType, targetID, uploaderID) ==
  [ id |-> 0, mediaID |-> mediaID, usageType |-> usageType, targetID |-> Nil,
    uploader |-> uploaderID ]

\* model.NewMediaUsage
NewMediaUsage(mediaID, usageType, targetID, uploaderID) ==
  [ id |-> 0, mediaID |-> mediaID, usageType |-> usageType, targetID |-> targetID,
    uploader |-> uploaderID ]

\* A permission check that lets every caller through.
CanEditAnyone(m, user) == TRUE

\* MediaFile.CanEdit(user): false for a nil user.
CanEdit(m, user) ==
  IF user = Nil THEN FALSE
  ELSE Deref(user).admin \/ (m.uploader # Nil /\ Deref(m.uploader) = Deref(user).id)

CanDelete(m, user) == CanEdit(m, user)

\* ---------------------------------------------------------------- registry
IDs == DOMAIN media

\* A lookup by hash that skips the soft-deleted rows.
GetByHashActive(hash) ==
  IF \E id \in IDs : media[id].hash = hash /\ media[id].status = "active"
  THEN Ptr(media[CHOOSE id \in IDs : media[id].hash = hash /\ media[id].status = "active"])
  ELSE Nil

\* mediaRepository.GetByHash: the row with that hash, Nil when there is none.
GetByHash(hash) ==
  IF \E id \in IDs : media[id].hash = hash
  THEN Ptr(media[CHOOSE id \in IDs : media[id].hash = hash])
  ELSE Nil

\* mediaRepository.GetByID: the row with that ID, Nil when there is none.
GetByID(id) == IF id \in IDs THEN Ptr(media[id]) ELSE Nil

\* A unique index that leaves the soft-deleted rows out.
HashTakenActiveOnly(hash) ==
  \E id \in IDs : media[id].hash = hash /\ media[id].status = "active"

\* The unique index on media_files.hash (media.go:19) as Create meets it.
HashTaken(hash) == \E id \in IDs : media[id].hash = hash

NoCall == [op |-> "none"]
NoRet == [op |-> "none"]

Idle(w) == pc[w] = "idle"

Init ==
  /\ config \in [allowedTypes : AllowedTypesChoices]
  /\ media = << >>
  /\ nextID = 1
  /\ usages = {}
  /\ nextUsageID = 1
  /\ disk = << >>
  /\ pc = [w \in Workers |-> "idle"]
  /\ call = [w \in Workers |-> NoCall]
  /\ out = NoRet
  /\ firstUpload = << >>
  /\ batch = [w \in Workers |-> Nil]

\* upload.go:212-220: the loop of UploadMultipleFiles takes what the
\* UploadFile it called returns: a result, or an error it notes and goes on.
BatchAfter(w, r) ==
  IF batch[w] = Nil \/ r.op # "UploadFile" THEN batch
  ELSE LET b == Deref(batch[w])
       IN  [batch EXCEPT ![w] =
              Ptr([b EXCEPT !.next = @ + 1,
                            !.attempts = Append(@, r),
                            !.results = IF r.result = "ok" THEN Append(@, r) ELSE @,
                            !.errors = IF r.result = "ok" THEN @ ELSE Append(@, r.result)])]

\* The call of worker w returns r to its caller: to the client, or to the
\* UploadMultipleFiles that made the call.
Return(w, r) ==
  /\ pc' = [pc EXCEPT ![w] = IF batch[w] # Nil /\ r.op = "UploadFile"
                              THEN "um_loop" ELSE "idle"]
  /\ batch' = BatchAfter(w, r)
  /\ call' = [call EXCEPT ![w] = NoCall]
  /\ out' = r @@ [worker |-> w]
  /\ firstUpload' =
       IF r.op = "UploadFile" /\ r.result = "ok" /\ r.hash \notin DOMAIN firstUpload
       THEN [h \in DOMAIN firstUpload \cup {r.hash} |->
               IF h = r.hash THEN Deref(r.media).id ELSE firstUpload[h]]
       ELSE firstUpload

\* The call of worker w goes on to the next stretch of its handler.
Goto(w, label, c) ==
  /\ pc' = [pc EXCEPT ![w] = label]
  /\ call' = [call EXCEPT ![w] = c]
  /\ out' = NoRet
  /\ UNCHANGED <<firstUpload, batch>>

\* Calls under way that may still insert a MediaFile row, a MediaUsage row.
RowsPending ==
  Cardinality({w \in Workers : pc[w] \in {"up_write", "up_create", "pi_open", "pi_save", "pi_create"}})

UsagesPending ==
  Cardinality({w \in Workers : pc[w] \in {"up_write", "up_create", "up_usage", "up_hit_usage"}})

RoomForRow == nextID + RowsPending <= MaxMedia
RoomForUsage == nextUsageID + UsagesPending <= MaxUsages

\* ------------------------------------------------------ UploadService.UploadFile
UploadResult(c, result, msg, mediaFile) ==
  [ op |-> "UploadFile", content |-> c.content, filename |-> c.filename,
    mime |-> c.mime, hash |-> c.hash, wrote |-> c.wrote, req |-> c.req,
    uploader |-> c.uploader, usageErr |-> c.usageErr,
    result |-> result, msg |-> msg, media |-> mediaFile ]

\* A size check that is off by one.
TooLargeOffByOne(content) == content.len >= MaxFileSize

\* upload.go:92: the size check.
TooLarge(content) == content.len > MaxFileSize

\* upload.go:78-134: validation, size and type checks, hash, dedup lookup.
UploadCheck(w, files, reqs) ==
  \E file \in files, req \in reqs, uploaderID \in UploaderIDs :
    LET content == file.content
        filename == file.filename
        mimeType == detectMimeType(filename, content)
        fileType == getFileType(mimeType)
        hash == calculateHash(content)
        existingMedia == GetByHash(hash)
        c == [ op |-> "UploadFile", content |-> content, filename |-> filename,
               req |-> req, uploader |-> uploaderID, mime |-> mimeType,
               fileType |-> fileType, hash |-> hash, wrote |-> FALSE,
               usageErr |-> FALSE ]
    IN  /\ UNCHANGED <<config, media, nextID, usages, nextUsageID, disk>>
        /\ IF ~Validate(req)
             THEN Return(w, UploadResult(c, "ValidationFailed", Nil, Nil))
           ELSE IF TooLarge(content)
             THEN Return(w, UploadResult(c, "FileTooLarge", Nil, Nil))
           ELSE IF ~isAllowedFileType(config.allowedTypes, mimeType)
             THEN Return(w, UploadResult(c, "UnsupportedType", Nil, Nil))
           ELSE IF existingMedia # Nil
             THEN /\ RoomForUsage
                  /\ Goto(w, "up_hit_usage", c @@ [existing |-> Deref(existingMedia)])
           ELSE /\ RoomForRow
                /\ RoomForUsage
                /\ Goto(w, "up_write", c)

\* upload.go:115-131: the dedup hit records a usage and returns the existing row.
UploadHitUsage(w, fails) ==
  LET c == call[w]
      usage == NewMediaUsage(c.existing.id, c.req.usageType, c.req.targetID, c.uploader)
  IN  \E fail \in fails :
        /\ UNCHANGED <<config, media, nextID, disk>>
        /\ IF fail
           THEN /\ UNCHANGED <<usages, nextUsageID>>
                /\ Return(w, UploadResult([c EXCEPT !.usageErr = TRUE], "ok", "existed",
                                          Ptr(c.existing)))
           ELSE /\ usages' = usages \cup {[usage EXCEPT !.id = nextUsageID]}
                /\ nextUsageID' = nextUsageID + 1
                /\ Return(w, UploadResult(c, "ok", "existed", Ptr(c.existing)))

\* upload.go:133-169: storage path, bytes to disk, the new record in memory.
UploadWrite(w, fails) ==
  LET c == call[w]
      storagePath == generateStoragePath(c.filename, c.hash)
      base == NewMediaFile(c.filename, storagePath, c.mime, c.fileType, c.hash,
                           c.content.len, Ptr(c.uploader))
      mediaFile == [base EXCEPT
                      !.alt = IF c.req.alt # "" THEN c.req.alt ELSE @,
                      !.caption = IF c.req.caption # "" THEN c.req.caption ELSE @,
                      !.isPublic = IF c.req.isPublic # Nil THEN Deref(c.req.isPublic) ELSE @]
  IN  \E fail \in fails :
        /\ UNCHANGED <<config, media, nextID, usages, nextUsageID>>
        /\ IF fail
           THEN \* saveFileToDisk fails: before the file is opened, or while
                \* the bytes are written to the file it has opened.
                /\ \E opened \in BOOLEAN :
                     disk' = IF opened
                             THEN [p \in DOMAIN disk \cup {storagePath} |->
                                     IF p = storagePath THEN EmptyFile ELSE disk[p]]
                             ELSE disk
                /\ Return(w, UploadResult(c, "WriteFailed", Nil, Nil))
           ELSE /\ disk' = [p \in DOMAIN disk \cup {storagePath} |->
                              IF p = storagePath THEN c.content ELSE disk[p]]
                /\ Goto(w, "up_create",
                        [c EXCEPT !.wrote = TRUE] @@ [path |-> storagePath, mediaFile |-> mediaFile])

\* upload.go:171-177 with mediaRepository.Create: the insert, refused by the
\* unique index when the hash is already registered.
UploadCreate(w, fails) ==
  LET c == call[w]
  IN  \E fail \in fails :
      IF fail \/ HashTaken(c.mediaFile.hash)
      THEN /\ UNCHANGED <<config, media, nextID, usages, nextUsageID, disk>>
           /\ Goto(w, "up_cleanup", c)
      ELSE /\ media' = [id \in IDs \cup {nextID} |->
                          IF id = nextID THEN [c.mediaFile EXCEPT !.id = nextID] ELSE media[id]]
           /\ nextID' = nextID + 1
           /\ UNCHANGED <<config, usages, nextUsageID, disk>>
           /\ Goto(w, "up_usage", [c EXCEPT !.mediaFile.id = nextID])

\* An error return after the failed insert that leaves the file where it is.
UploadCleanupKeepsFile(w) ==
  /\ UNCHANGED <<config, media, nextID, usages, nextUsageID, disk>>
  /\ Return(w, UploadResult(call[w], "CreateFailed", Nil, Nil))

\* upload.go:173-176: os.Remove(storagePath) after the failed insert.
UploadCleanup(w) ==
  LET c == call[w]
  IN  /\ disk' = [p \in DOMAIN disk \ {c.path} |-> disk[p]]
      /\ UNCHANGED <<config, media, nextID, usages, nextUsageID>>
      /\ Return(w, UploadResult(c, "CreateFailed", Nil, Nil))

\* upload.go:179-198: the usage record of the new file, then the result.
UploadUsage(w, fails) ==
  LET c == call[w]
      usage == NewMediaUsage(c.mediaFile.id, c.req.usageType, c.req.targetID, c.uploader)
  IN  \E fail \in fails :
        /\ UNCHANGED <<config, media, nextID, disk>>
        /\ IF fail
           THEN /\ UNCHANGED <<usages, nextUsageID>>
                /\ Return(w, UploadResult([c EXCEPT !.usageErr = TRUE], "ok", "created",
                                          Ptr(c.mediaFile)))
           ELSE /\ usages' = usages \cup {[usage EXCEPT !.id = nextUsageID]}
                /\ nextUsageID' = nextUsageID + 1
                /\ Return(w, UploadResult(c, "ok", "created", Ptr(c.mediaFile)))

UploadFile(w, files, reqs, fails) ==
  CASE pc[w] = "idle"         -> UploadCheck(w, files, reqs)
    [] pc[w] = "up_hit_usage" -> UploadHitUsage(w, fails)
    [] pc[w] = "up_write"     -> UploadWrite(w, fails)
    [] pc[w] = "up_create"    -> UploadCreate(w, fails)
    [] pc[w] = "up_cleanup"   -> UploadCleanup(w)
    [] pc[w] = "up_usage"     -> UploadUsage(w, fails)
    [] OTHER                  -> FALSE

\* ------------------------------------------- UploadService.UploadMultipleFiles
\* A list of one file more than a call takes.
TooManyFiles(file) == [i \in 1..(MaxBatch + 1) |-> file]

\* An error whenever one file has failed.
BatchOutcomeAnyError(b) == IF Len(b.errors) > 0 THEN "AllFailed" ELSE "ok"

\* upload.go:222-230: an error when every file has failed.
BatchOutcome(b) == IF Len(b.errors) > 0 /\ Len(b.results) = 0 THEN "AllFailed" ELSE "ok"

BatchReturn(w, r) ==
  /\ pc' = [pc EXCEPT ![w] = "idle"]
  /\ call' = [call EXCEPT ![w] = NoCall]
  /\ out' = r @@ [op |-> "UploadMultipleFiles", worker |-> w]
  /\ batch' = [batch EXCEPT ![w] = Nil]
  /\ UNCHANGED firstUpload

\* upload.go:203-210: the two checks of the list; a list that passes is
\* taken when the registry has room for all its files.
BatchStart(w, lists, reqs) ==
  \E files \in lists, req \in reqs, uploaderID \in UploaderIDs :
    LET r == [files |-> files, req |-> req, results |-> << >>, attempts |-> << >>]
    IN  /\ UNCHANGED <<config, media, nextID, usages, nextUsageID, disk>>
        /\ IF Len(files) = 0
             THEN BatchReturn(w, r @@ [result |-> "NoFiles"])
           ELSE IF Len(files) > MaxBatch
             THEN BatchReturn(w, r @@ [result |-> "TooMany"])
           ELSE /\ nextID + RowsPending + Len(files) - 1 <= MaxMedia
                /\ nextUsageID + UsagesPending + Len(files) - 1 <= MaxUsages
                /\ pc' = [pc EXCEPT ![w] = "um_loop"]
                /\ call' = [call EXCEPT ![w] = NoCall]
                /\ out' = NoRet
                /\ batch' = [batch EXCEPT ![w] =
                               Ptr([ files |-> files, req |-> req, uploader |-> uploaderID,
                                     next |-> 1, attempts |-> << >>, results |-> << >>,
                                     errors |-> << >> ])]
                /\ UNCHANGED firstUpload

\* upload.go:215-231: the next file goes to UploadFile; after the last one
\* the call returns the results, or the error.
BatchNext(w) ==
  LET b == Deref(batch[w])
  IN  IF b.next > Len(b.files)
      THEN /\ UNCHANGED <<config, media, nextID, usages, nextUsageID, disk>>
           /\ BatchReturn(w, [ files |-> b.files, req |-> b.req, result |-> BatchOutcome(b),
                               results |-> IF BatchOutcome(b) = "ok" THEN b.results ELSE << >>,
                               attempts |-> b.attempts ])
      ELSE UploadCheck(w, {b.files[b.next]}, {b.req})

UploadMultipleFiles(w, lists, reqs, fails) ==
  CASE pc[w] = "idle"    -> BatchStart(w, lists, reqs)
    [] pc[w] = "um_loop" -> BatchNext(w)
    [] OTHER             -> batch[w] # Nil /\ UploadFile(w, {}, {}, fails)

\* ---------------------------------------------------- UploadService.DeleteMedia
MediaIDs == 1..MaxMedia

\* upload.go:314-324: the row by ID, then the permission check, which the
\* service makes with a nil user.
DeleteCheck(w) ==
  \E id \in MediaIDs :
    /\ UNCHANGED <<config, media, nextID, usages, nextUsageID, disk>>
    /\ IF id \notin IDs
         THEN Return(w, [op |-> "DeleteMedia", id |-> id, result |-> "NotFound", media |-> Nil])
       ELSE IF ~CanDelete(media[id], Nil)
         THEN Return(w, [op |-> "DeleteMedia", id |-> id, result |-> "Forbidden",
                         media |-> Ptr(media[id])])
       ELSE Goto(w, "del_usages", [op |-> "DeleteMedia", id |-> id, media |-> media[id]])

\* upload.go:326-330: usageRepo.GetByMediaID(id); when the lookup fails the
\* error is logged and the call goes on to remove the file and the row.
DeleteUsages(w) ==
  LET c == call[w]
      found == {u \in usages : u.mediaID = c.id}
  IN  /\ UNCHANGED <<config, media, nextID, usages, nextUsageID, disk>>
      /\ \E fail \in AnyFailure :
           Goto(w, IF ~fail /\ found # {} THEN "del_soft" ELSE "del_remove", c)

\* A status update that also sets the public flag by the status.
SetStatusAndVisibility(table, id, status) ==
  [i \in DOMAIN table |->
     IF i = id THEN [table[i] EXCEPT !.status = status, !.isPublic = (status = "active")]
     ELSE table[i]]

\* mediaRepository.SoftDelete / Restore: UPDATE media_files SET status = ?
\* WHERE id = ?, which changes nothing when no row has that ID.
SetStatus(table, id, status) ==
  [i \in DOMAIN table |-> IF i = id THEN [table[i] EXCEPT !.status = status] ELSE table[i]]

\* upload.go:331-337: the soft delete of a media that has usages.
DeleteSoft(w) ==
  LET c == call[w]
  IN  /\ media' = SetStatus(media, c.id, "deleted")
      /\ UNCHANGED <<config, nextID, usages, nextUsageID, disk>>
      /\ Return(w, [op |-> "DeleteMedia", id |-> c.id, result |-> "ok", media |-> Ptr(c.media)])

\* upload.go:339-343: os.Remove(media.StoragePath), its error only logged.
DeleteRemove(w) ==
  LET c == call[w]
  IN  /\ disk' = [p \in DOMAIN disk \ {c.media.path} |-> disk[p]]
      /\ UNCHANGED <<config, media, nextID, usages, nextUsageID>>
      /\ Goto(w, "del_row", c)

\* upload.go:345-351 with mediaRepository.Delete: DELETE ... WHERE id = ?.
DeleteRow(w) ==
  LET c == call[w]
  IN  /\ media' = [i \in IDs \ {c.id} |-> media[i]]
      /\ UNCHANGED <<config, nextID, usages, nextUsageID, disk>>
      /\ Return(w, [op |-> "DeleteMedia", id |-> c.id, result |-> "ok", media |-> Ptr(c.media)])

DeleteMedia(w) ==
  CASE pc[w] = "idle"       -> DeleteCheck(w)
    [] pc[w] = "del_usages" -> DeleteUsages(w)
    [] pc[w] = "del_soft"   -> DeleteSoft(w)
    [] pc[w] = "del_remove" -> DeleteRemove(w)
    [] pc[w] = "del_row"    -> DeleteRow(w)
    [] OTHER                -> FALSE

\* ------------------------------------------------- UploadService.UpdateMedia
\* FileUploadRequest values an update carries.
UpdateRequests == {r \in UploadRequests : r.usageType # ""}

\* MediaFile.SetPublic
SetPublic(m, isPublic) == [m EXCEPT !.isPublic = isPublic]

\* upload.go:295-305: the fields of the request that are set go into the row
\* that was read.
UpdateFields(m, req) ==
  LET a == IF req.alt # "" THEN [m EXCEPT !.alt = req.alt] ELSE m
      b == IF req.caption # "" THEN [a EXCEPT !.caption = req.caption] ELSE a
  IN  IF req.isPublic # Nil THEN SetPublic(b, Deref(req.isPublic)) ELSE b

\* A check that lets every caller through to the save.
UpdateCheckAnyUser(w) ==
  \E id \in MediaIDs, req \in UpdateRequests :
    /\ UNCHANGED <<config, media, nextID, usages, nextUsageID, disk>>
    /\ IF id \notin IDs
         THEN Return(w, [op |-> "UpdateMedia", id |-> id, result |-> "NotFound", media |-> Nil])
       ELSE Goto(w, "um_save", [op |-> "UpdateMedia", id |-> id,
                                media |-> UpdateFields(media[id], req)])

\* upload.go:283-293: the row by ID, then the permission check, which the
\* service makes with a nil user.
UpdateCheck(w) ==
  \E id \in MediaIDs, req \in UpdateRequests :
    /\ UNCHANGED <<config, media, nextID, usages, nextUsageID, disk>>
    /\ IF id \notin IDs
         THEN Return(w, [op |-> "UpdateMedia", id |-> id, result |-> "NotFound", media |-> Nil])
       ELSE IF ~CanEdit(media[id], Nil)
         THEN Return(w, [op |-> "UpdateMedia", id |-> id, result |-> "Forbidden",
                         media |-> Ptr(media[id])])
       ELSE Goto(w, "um_save", [op |-> "UpdateMedia", id |-> id,
                                media |-> UpdateFields(media[id], req)])

\* mediaRepository.Update: db.Save writes every column of the row held by the
\* call, and inserts the row when none has its ID any more.
UpdateSave(w) ==
  LET c == call[w]
  IN  /\ media' = [id \in IDs \cup {c.id} |-> IF id = c.id THEN c.media ELSE media[id]]
      /\ UNCHANGED <<config, nextID, usages, nextUsageID, disk>>
      /\ Return(w, [op |-> "UpdateMedia", id |-> c.id, result |-> "ok", media |-> Ptr(c.media)])

UpdateMedia(w) ==
  CASE pc[w] = "idle"    -> UpdateCheck(w)
    [] pc[w] = "um_save" -> UpdateSave(w)
    [] OTHER             -> FALSE

\* ------------------------------------- mediaRepository.SoftDelete and Restore
SoftDelete(w) ==
  /\ pc[w] = "idle"
  /\ \E id \in MediaIDs :
       /\ media' = SetStatus(media, id, "deleted")
       /\ Return(w, [op |-> "SoftDelete", id |-> id, result |-> "ok", before |-> GetByID(id)])
  /\ UNCHANGED <<config, nextID, usages, nextUsageID, disk>>

Restore(w) ==
  /\ pc[w] = "idle"
  /\ \E id \in MediaIDs :
       /\ media' = SetStatus(media, id, "active")
       /\ Return(w, [op |-> "Restore", id |-> id, result |-> "ok", before |-> GetByID(id)])
  /\ UNCHANGED <<config, nextID, usages, nextUsageID, disk>>

\* ------------------------------------------------ ProcessorService.ProcessImage
\* ProcessRequest values (processor.go:36-44).
ProcessRequests ==
  { [processType |-> "resize",    width |-> Ptr(100), height |-> Nil, watermarkText |-> "",   outputFormat |-> ""],
    [processType |-> "resize",    width |-> Nil,      height |-> Nil, watermarkText |-> "",   outputFormat |-> ""],
    [processType |-> "compress",  width |-> Nil,      height |-> Nil, watermarkText |-> "",   outputFormat |-> "jpeg"],
    [processType |-> "watermark", width |-> Nil,      height |-> Nil, watermarkText |-> "wm", outputFormat |-> ""],
    [processType |-> "watermark", width |-> Nil,      height |-> Nil, watermarkText |-> "",   outputFormat |-> ""],
    [processType |-> "thumbnail", width |-> Nil,      height |-> Nil, watermarkText |-> "",   outputFormat |-> ""],
    [processType |-> "thumbnail", width |-> Nil,      height |-> Nil, watermarkText |-> "",   outputFormat |-> "gif"] }

\* image.Decode with the decoders processor.go imports (image/jpeg, image/png).
Decodable(content) == content.format \in {"png", "jpeg"}

\* Transforms that return an image whatever the request holds.
TransformAlwaysOK(req) == TRUE

\* resizeImage, compressImage, addWatermark, generateThumbnail: whether the
\* transform returns an image (TRUE) or an error (FALSE).
TransformOK(req) ==
  CASE req.processType = "resize"    -> ~(req.width = Nil /\ req.height = Nil)
    [] req.processType = "compress"  -> TRUE
    [] req.processType = "watermark" -> req.watermarkText # ""
    [] req.processType = "thumbnail" -> TRUE
    [] OTHER                         -> FALSE

\* processor.go:85-109: the format the result is encoded in.
OutputFormat(req, format) ==
  IF req.outputFormat # "" THEN req.outputFormat
  ELSE IF req.processType = "thumbnail" THEN "jpeg"
  ELSE format

\* A resize whose width, computed from a height, is rounded up.
resizeImageWidthRoundedUp(size, width, height) ==
  LET targetWidth ==
        IF width # Nil THEN Deref(width)
        ELSE IF height # Nil THEN (size[1] * Deref(height) + size[2] - 1) \div size[2]
        ELSE size[1]
      targetHeight ==
        IF height # Nil THEN Deref(height)
        ELSE IF width # Nil THEN (size[2] * Deref(width)) \div size[1]
        ELSE size[2]
  IN  <<targetWidth, targetHeight>>

\* resizeImage: the width and height of the result; int(...) of the float64
\* quotient of positive numbers is the integer quotient.
resizeImage(size, width, height) ==
  LET originalWidth == size[1]
      originalHeight == size[2]
      targetWidth ==
        IF width # Nil THEN Deref(width)
        ELSE IF height # Nil THEN (originalWidth * Deref(height)) \div originalHeight
        ELSE originalWidth
      targetHeight ==
        IF height # Nil THEN Deref(height)
        ELSE IF width # Nil THEN (originalHeight * Deref(width)) \div originalWidth
        ELSE originalHeight
  IN  <<targetWidth, targetHeight>>

\* resizeImage on an image without pixels in the dimension it divides by:
\* the float64 quotient is infinite or not a number, its conversion to int
\* depends on the platform, and image.NewRGBA panics on the rectangle that
\* every platform's value gives.
ResizePanics(req, size) ==
  /\ req.processType \in {"resize", "thumbnail"}
  /\ \/ req.width # Nil /\ req.height = Nil /\ size[1] = 0
     \/ req.width = Nil /\ req.height # Nil /\ size[2] = 0

\* A thumbnail without the default dimensions.
generateThumbnailNoDefault(size, width, height) == resizeImage(size, width, height)

\* generateThumbnail: 200 by 200 when no dimension is given.
generateThumbnail(size, width, height) ==
  IF width = Nil /\ height = Nil
  THEN resizeImage(size, Ptr(200), Ptr(200))
  ELSE resizeImage(size, width, height)

\* processor.go:84-101: the width and height of the transformed image.
ProcessedSize(req, size) ==
  CASE req.processType = "resize"    -> resizeImage(size, req.width, req.height)
    [] req.processType = "thumbnail" -> generateThumbnail(size, req.width, req.height)
    [] OTHER                         -> size

\* saveProcessedImage: the formats it can encode; png.Encode refuses an
\* image without pixels.
Encodable(format, size) ==
  \/ format \in {"jpeg", "jpg"}
  \/ format = "png" /\ size[1] > 0 /\ size[2] > 0

\* The bytes jpeg.Encode / png.Encode write for the transformed image.
Encoded(content, req, format) ==
  [ data |-> content.data \o <<req.processType, format>>,
    len |-> EncodedSize,
    format |-> IF format = "jpg" THEN "jpeg" ELSE format,
    size |-> ProcessedSize(req, content.size) ]

\* Whether a ProcessImage call on row id that starts now gets as far as
\* inserting a row: when the registry has no room left for a new row, the
\* calls that are certain to insert none may still be made (full).
MayInsert(id, req) ==
  LET src == media[id].path
      path == generateProcessedImagePath(src, req.processType,
                                         OutputFormat(req, disk[src].format))
  IN  /\ src \in DOMAIN disk
      /\ Decodable(disk[src])
      /\ TransformOK(req)
      /\ ~ResizePanics(req, disk[src].size)
      /\ Encodable(OutputFormat(req, disk[src].format), ProcessedSize(req, disk[src].size))
      /\ ~HashTaken(calculateFileHash(path))

\* addWatermark: whether the watermark text is drawn onto the image; the
\* code copies the pixels and leaves the drawing out.
WatermarkRendered(req) == FALSE

\* ProcessResult.Message of a successful call.
ProcessedMessage == "image processed"

ProcessError(c, result) ==
  [ op |-> "ProcessImage", id |-> c.id, req |-> c.req, result |-> result,
    media |-> Nil, message |-> "", rendered |-> FALSE,
    path |-> IF "path" \in DOMAIN c THEN Ptr(c.path) ELSE Nil ]

\* processor.go:54-64: the source row by ID, which must be an image.
ProcessStart(w, id, req, full) ==
  LET c == [op |-> "ProcessImage", id |-> id, req |-> req]
  IN  /\ UNCHANGED <<config, media, nextID, usages, nextUsageID, disk>>
      /\ IF id \notin IDs
           THEN Return(w, ProcessError(c, "NotFound"))
         ELSE IF media[id].fileType # "image"
           THEN Return(w, ProcessError(c, "NotImage"))
         ELSE /\ RoomForRow \/ (full /\ ~MayInsert(id, req))
              /\ Goto(w, "pi_open", c @@ [media |-> media[id]])

ProcessCheck(w, reqs, full) ==
  \E id \in MediaIDs, req \in reqs : ProcessStart(w, id, req, full)

\* processor.go:66-112: open and decode the source file, transform the image,
\* choose the output format and the path of the result.
ProcessOpen(w, fails) ==
  LET c == call[w]
      src == c.media.path
      outputFormat == OutputFormat(c.req, disk[src].format)
  IN  \E fail \in fails :
      /\ UNCHANGED <<config, media, nextID, usages, nextUsageID, disk>>
      /\ IF fail \/ src \notin DOMAIN disk
           THEN Return(w, ProcessError(c, "OpenFailed"))
         ELSE IF ~Decodable(disk[src])
           THEN Return(w, ProcessError(c, "DecodeFailure"))
         ELSE IF ~TransformOK(c.req)
           THEN Return(w, ProcessError(c, "InvalidTransformParameters"))
         ELSE IF ResizePanics(c.req, disk[src].size)
           THEN Return(w, ProcessError(c, "Panic"))
         ELSE Goto(w, "pi_save",
                   c @@ [img |-> disk[src], outputFormat |-> outputFormat,
                         path |-> generateProcessedImagePath(src, c.req.processType, outputFormat)])

\* processor.go:114-139 with saveProcessedImage: os.Create makes or truncates
\* the file, the encoder fills it; an unsupported format leaves it empty.
ProcessSave(w, fails) ==
  LET c == call[w]
      size == ProcessedSize(c.req, c.img.size)
      written == IF Encodable(c.outputFormat, size)
                 THEN Encoded(c.img, c.req, c.outputFormat) ELSE EmptyFile
      base == NewMediaFile(generateProcessedFilename(c.media.filename, c.req.processType),
                           c.path, getMimeTypeByFormat(c.outputFormat),
                           "image", calculateFileHash(c.path), c.media.size, c.media.uploader)
      processedMedia == [base EXCEPT !.alt = c.media.alt,
                                     !.caption = c.media.caption \o " (" \o c.req.processType \o ")",
                                     !.isPublic = c.media.isPublic,
                                     !.width = Ptr(size[1]),
                                     !.height = Ptr(size[2])]
  IN  \E fail \in fails :
        /\ UNCHANGED <<config, media, nextID, usages, nextUsageID>>
        /\ IF fail
           THEN \* saveProcessedImage fails: before os.Create, or in the
                \* encoder, which leaves the file it was writing to.
                /\ \E created \in BOOLEAN :
                     disk' = IF created
                             THEN [p \in DOMAIN disk \cup {c.path} |->
                                     IF p = c.path THEN EmptyFile ELSE disk[p]]
                             ELSE disk
                /\ Return(w, ProcessError(c, "SaveFailed"))
           ELSE /\ disk' = [p \in DOMAIN disk \cup {c.path} |->
                              IF p = c.path THEN written ELSE disk[p]]
                /\ IF Encodable(c.outputFormat, size)
                     THEN Goto(w, "pi_create", c @@ [mediaFile |-> processedMedia])
                   ELSE Return(w, ProcessError(c, "SaveFailed"))

\* processor.go:140-158 with mediaRepository.Create.
ProcessCreate(w, fails) ==
  LET c == call[w]
      row == [c.mediaFile EXCEPT !.id = nextID]
  IN  \E fail \in fails :
      IF fail \/ HashTaken(c.mediaFile.hash)
      THEN /\ UNCHANGED <<config, media, nextID, usages, nextUsageID, disk>>
           /\ Goto(w, "pi_cleanup", c)
      ELSE /\ media' = [id \in IDs \cup {nextID} |-> IF id = nextID THEN row ELSE media[id]]
           /\ nextID' = nextID + 1
           /\ UNCHANGED <<config, usages, nextUsageID, disk>>
           /\ Return(w, [ op |-> "ProcessImage", id |-> c.id,
                          req |-> c.req, result |-> "ok", path |-> Ptr(c.path),
                          media |-> Ptr(row), message |-> ProcessedMessage,
                          rendered |-> (c.req.processType = "watermark"
                                          /\ WatermarkRendered(c.req)) ])

\* processor.go:142-145: os.Remove(processedPath) after the failed insert.
ProcessCleanup(w) ==
  LET c == call[w]
  IN  /\ disk' = [p \in DOMAIN disk \ {c.path} |-> disk[p]]
      /\ UNCHANGED <<config, media, nextID, usages, nextUsageID>>
      /\ Return(w, ProcessError(c, "CreateFailed"))

ProcessImage(w, reqs, full, fails) ==
  CASE pc[w] = "idle"       -> ProcessCheck(w, reqs, full)
    [] pc[w] = "pi_open"    -> ProcessOpen(w, fails)
    [] pc[w] = "pi_save"    -> ProcessSave(w, fails)
    [] pc[w] = "pi_create"  -> ProcessCreate(w, fails)
    [] pc[w] = "pi_cleanup" -> ProcessCleanup(w)
    [] OTHER                -> FALSE

\* -------------------------------------------- ProcessorService.OptimizeImage
\* A choice that looks at the width before the file size.
OptimizeRequestWidthFirst(m) ==
  LET base == [width |-> Nil, height |-> Nil, watermarkText |-> "", outputFormat |-> "jpeg"]
  IN  IF m.width # Nil /\ Deref(m.width) > OptimizeMaxWidth
        THEN [base EXCEPT !.width = Ptr(OptimizeMaxWidth)]
               @@ [processType |-> "resize", quality |-> Nil]
      ELSE IF m.size > OptimizeSizeLimit
        THEN base @@ [processType |-> "compress", quality |-> Ptr(75)]
      ELSE base @@ [processType |-> "compress", quality |-> Ptr(85)]

\* processor.go:424-441: the ProcessRequest OptimizeImage builds for a row.
OptimizeRequest(m) ==
  LET base == [width |-> Nil, height |-> Nil, watermarkText |-> "", outputFormat |-> "jpeg"]
  IN  IF m.size > OptimizeSizeLimit
        THEN base @@ [processType |-> "compress", quality |-> Ptr(75)]
      ELSE IF m.width # Nil /\ Deref(m.width) > OptimizeMaxWidth
        THEN [base EXCEPT !.width = Ptr(OptimizeMaxWidth)]
               @@ [processType |-> "resize", quality |-> Nil]
      ELSE base @@ [processType |-> "compress", quality |-> Ptr(85)]

\* processor.go:414-441: the row by ID, which must be an image, and the
\* request chosen for it.
OptimizeCheck(w) ==
  \E id \in MediaIDs :
    /\ UNCHANGED <<config, media, nextID, usages, nextUsageID, disk>>
    /\ IF id \notin IDs
         THEN Return(w, [op |-> "OptimizeImage", id |-> id, result |-> "NotFound"])
       ELSE IF media[id].fileType # "image"
         THEN Return(w, [op |-> "OptimizeImage", id |-> id, result |-> "NotImage"])
       ELSE Goto(w, "oi_call", [op |-> "OptimizeImage", id |-> id,
                                req |-> OptimizeRequest(media[id])])

\* processor.go:443: s.ProcessImage(ctx, &req), whose steps follow; the call
\* waits where the registry has no room for the row it would insert.
OptimizeCall(w) == ProcessStart(w, call[w].id, call[w].req, TRUE)

OptimizeImage(w) ==
  CASE pc[w] = "idle"    -> OptimizeCheck(w)
    [] pc[w] = "oi_call" -> OptimizeCall(w)
    [] OTHER             -> FALSE

\* ------------------------------------------------------------------ queries
\* MediaListRequest values (upload.go:67-75); a page holds more rows than the
\* registry ever has.
ListRequests ==
  { [ page |-> 1, size |-> 20, fileType |-> "", uploaderID |-> Nil, status |-> st,
      isPublic |-> Nil, keyword |-> "" ] : st \in {"", "active", "deleted"} }
  \cup
  { [ page |-> 1, size |-> 20, fileType |-> "image", uploaderID |-> Ptr(1), status |-> "",
      isPublic |-> Ptr(TRUE), keyword |-> "" ],
    [ page |-> 1, size |-> 20, fileType |-> "", uploaderID |-> Nil, status |-> "",
      isPublic |-> Nil, keyword |-> "logo" ],
    [ page |-> 0, size |-> 20, fileType |-> "", uploaderID |-> Nil, status |-> "",
      isPublic |-> Nil, keyword |-> "" ] }

Keywords == {"", "logo", "raw", "zzz"}

\* validator.Validate(req) by the struct tags of MediaListRequest.
ValidateList(req) ==
  /\ req.page >= 1
  /\ req.size >= 1 /\ req.size <= 100
  /\ req.fileType \in {"", "image", "video", "document", "other"}
  /\ req.status \in {"", "active", "deleted"}

\* column LIKE '%keyword%': the keywords in use are whole values of the
\* columns they occur in.
Like(column, keyword) == column = keyword

KeywordMatch(m, keyword) ==
  \/ Like(m.filename[1] \o m.filename[2], keyword)
  \/ Like(m.alt, keyword)
  \/ Like(m.caption, keyword)

\* mediaRepository.buildMediaQuery: the rows the filters let through.
buildMediaQuery(filters) ==
  { id \in IDs :
      /\ filters.fileType # "" => media[id].fileType = filters.fileType
      /\ filters.uploaderID # Nil => media[id].uploader = filters.uploaderID
      /\ filters.status # "" => media[id].status = filters.status
      /\ filters.isPublic # Nil => media[id].isPublic = Deref(filters.isPublic)
      /\ filters.keyword # "" => KeywordMatch(media[id], filters.keyword) }

\* ORDER BY created_at DESC: the rows by falling ID.
RECURSIVE NewestFirst(_)
NewestFirst(ids) ==
  IF ids = {} THEN << >>
  ELSE LET top == CHOOSE i \in ids : \A j \in ids : j <= i
       IN  <<media[top]>> \o NewestFirst(ids \ {top})

\* OFFSET (page - 1) * size LIMIT size
Page(rows, page, size) ==
  LET offset == (page - 1) * size
      last == IF offset + size < Len(rows) THEN offset + size ELSE Len(rows)
  IN  SubSeq(rows, offset + 1, last)

QueryResult(op, ids, page, size) ==
  [ op |-> op, result |-> "ok", medias |-> Page(NewestFirst(ids), page, size),
    total |-> Cardinality(ids) ]

QueryError(op) == [op |-> op, result |-> "ValidationFailed", medias |-> << >>, total |-> 0]

\* The callers of GetMediaByID: nobody, the uploader, somebody else.
CallerIDs == {Nil} \cup {Ptr(u) : u \in UploaderIDs \cup {2}}

\* A check that lets every caller with a user ID see the file.
CanViewWithAnyID(m, userID) == m.isPublic \/ userID # Nil

\* upload.go:272: a public file, or the caller is the uploader.
CanView(m, userID) ==
  ~(~m.isPublic /\ (userID = Nil \/ m.uploader = Nil \/ Deref(userID) # Deref(m.uploader)))

\* UploadService.GetMediaByID
GetMediaByID(w) ==
  /\ pc[w] = "idle"
  /\ UNCHANGED <<config, media, nextID, usages, nextUsageID, disk>>
  /\ \E id \in MediaIDs, userID \in CallerIDs :
       LET r == [op |-> "GetMediaByID", id |-> id, userID |-> userID]
       IN  IF id \notin IDs
             THEN Return(w, r @@ [result |-> "NotFound", media |-> Nil])
           ELSE IF ~CanView(media[id], userID)
             THEN Return(w, r @@ [result |-> "Forbidden", media |-> Nil])
           ELSE Return(w, r @@ [result |-> "ok", media |-> Ptr(media[id])])

\* UploadService.GetMediaList with mediaRepository.List
GetMediaList(w) ==
  /\ pc[w] = "idle"
  /\ UNCHANGED <<config, media, nextID, usages, nextUsageID, disk>>
  /\ \E req \in ListRequests, userID \in {Nil, Ptr(1)} :
       LET filters == [ fileType |-> req.fileType, status |-> req.status,
                        isPublic |-> req.isPublic, keyword |-> req.keyword,
                        uploaderID |-> IF userID # Nil THEN userID ELSE req.uploaderID ]
       IN  IF ~ValidateList(req)
           THEN Return(w, QueryError("GetMediaList") @@ [req |-> req])
           ELSE Return(w, QueryResult("GetMediaList", buildMediaQuery(filters),
                                      req.page, req.size) @@ [req |-> req])

\* mediaRepository.Search
Search(keyword) ==
  IF keyword = "" THEN {}
  ELSE {id \in IDs : KeywordMatch(media[id], keyword) /\ media[id].status = "active"}

\* UploadService.SearchMedia
SearchMedia(w) ==
  /\ pc[w] = "idle"
  /\ UNCHANGED <<config, media, nextID, usages, nextUsageID, disk>>
  /\ \E keyword \in Keywords, req \in ListRequests :
       IF ~ValidateList(req)
       THEN Return(w, QueryError("SearchMedia") @@ [keyword |-> keyword])
       ELSE Return(w, QueryResult("SearchMedia", Search(keyword), req.page, req.size)
                      @@ [keyword |-> keyword])

\* mediaRepository.ListPublic
ListPublic(w) ==
  /\ pc[w] = "idle"
  /\ UNCHANGED <<config, media, nextID, usages, nextUsageID, disk>>
  /\ Return(w, QueryResult("ListPublic",
                           {id \in IDs : media[id].isPublic /\ media[id].status = "active"},
                           1, 20))

\* mediaRepository.GetRecent(limit)
GetRecent(w) ==
  /\ pc[w] = "idle"
  /\ UNCHANGED <<config, media, nextID, usages, nextUsageID, disk>>
  /\ \E limit \in 1..MaxMedia :
       Return(w, QueryResult("GetRecent",
                             {id \in IDs : media[id].status = "active" /\ media[id].isPublic},
                             1, limit))

RECURSIVE SumSize(_)
SumSize(ids) ==
  IF ids = {} THEN 0
  ELSE LET id == CHOOSE i \in ids : TRUE IN media[id].size + SumSize(ids \ {id})

\* mediaRepository.GetStats and GetUploaderStats: the active rows counted.
GetStats(uploaderID) ==
  LET rows == { id \in IDs : /\ media[id].status = "active"
                             /\ uploaderID # Nil => media[id].uploader = uploaderID }
      OfType(types) == Cardinality({id \in rows : media[id].fileType \in types})
  IN  [ totalCount |-> Cardinality(rows), totalSize |-> SumSize(rows),
        imageCount |-> OfType({"image"}), videoCount |-> OfType({"video"}),
        documentCount |-> OfType({"document"}),
        otherCount |-> Cardinality(rows) - OfType({"image", "video", "document"}) ]

\* UploadService.GetMediaStats
GetMediaStats(w) ==
  /\ pc[w] = "idle"
  /\ UNCHANGED <<config, media, nextID, usages, nextUsageID, disk>>
  /\ \E uploaderID \in {Nil, Ptr(1)} :
       Return(w, [ op |-> "GetMediaStats", result |-> "ok", uploaderID |-> uploaderID,
                   stats |-> GetStats(uploaderID) ])

\* Calls racing on their own workers.
Next ==
  \E w \in Workers :
    \/ UploadFile(w, RaceFiles, RaceUploadRequests, NoFailure)
    \/ ProcessImage(w, RaceProcessRequests, FALSE, NoFailure)
    \/ DeleteMedia(w)
    \/ SoftDelete(w)
    \/ Restore(w)

Spec == Init /\ [][Next]_vars

\* One call after the other, on one worker.
NextSeq ==
  \/ UploadFile(1, Files, UploadRequests, NoFailure)
  \/ ProcessImage(1, RaceProcessRequests, FALSE, NoFailure)
  \/ DeleteMedia(1)
  \/ SoftDelete(1)
  \/ Restore(1)

SpecSeq == Init /\ [][NextSeq]_vars

\* The transforms in full, one call after the other, on images only
\* (Upload.AllowedTypes = ["image/"]).
InitImages == Init /\ config.allowedTypes = << <<"image/">> >>

NextProc ==
  \/ UploadFile(1, RaceFiles, RaceUploadRequests, NoFailure)
  \/ ProcessImage(1, ProcessRequests, TRUE, NoFailure)

SpecProc == InitImages /\ [][NextProc]_vars

\* Uploads and transformations of one worker, with the updates and the status
\* changes of every worker between their steps.
NextUpdate ==
  \/ UploadFile(1, RaceFiles, RaceUploadRequests, NoFailure)
  \/ ProcessImage(1, RaceProcessRequests, FALSE, NoFailure)
  \/ \E w \in Workers :
       \/ UpdateMedia(w)
       \/ DeleteMedia(w)
       \/ SoftDelete(w)
       \/ Restore(w)

SpecUpdate == InitImages /\ [][NextUpdate]_vars

\* Uploads, soft deletes and restores with the queries between them.
NextQuery ==
  \/ UploadFile(1, RaceFiles, UploadRequests, NoFailure)
  \/ SoftDelete(1)
  \/ Restore(1)
  \/ GetMediaByID(1)
  \/ GetMediaList(1)
  \/ SearchMedia(1)
  \/ ListPublic(1)
  \/ GetRecent(1)
  \/ GetMediaStats(1)

SpecQuery == InitImages /\ [][NextQuery]_vars

\* Images of every width and height up to MaxDim, and the resize requests
\* that give one dimension up to MaxDim.
ResizeFiles ==
  { [ content |-> [ data |-> <<"img", w0, h0>>, len |-> EncodedSize, format |-> "png",
                    size |-> <<w0, h0>> ],
      filename |-> <<"a", ".png">> ] : w0 \in 1..MaxDim, h0 \in 1..MaxDim }

ResizeRequests ==
  { [processType |-> "resize", width |-> Ptr(W), height |-> Nil, watermarkText |-> "",
     outputFormat |-> ""] : W \in 1..MaxDim }
  \cup
  { [processType |-> "resize", width |-> Nil, height |-> Ptr(H), watermarkText |-> "",
     outputFormat |-> ""] : H \in 1..MaxDim }

\* One source image is uploaded; the resizes are of it and of their results.
NextResize ==
  \/ /\ pc[1] = "idle" => nextID = 1
     /\ UploadFile(1, ResizeFiles, RaceUploadRequests, NoFailure)
  \/ ProcessImage(1, ResizeRequests, FALSE, NoFailure)

SpecResize == InitImages /\ [][NextResize]_vars

\* Thumbnail requests with no dimension, with one and with both, in the
\* default format and in a requested one.
ThumbnailRequests ==
  { [processType |-> "thumbnail", width |-> width, height |-> height, watermarkText |-> "",
     outputFormat |-> format] :
      width \in {Nil, Ptr(1), Ptr(MaxDim)},
      height \in {Nil, Ptr(MaxDim)},
      format \in {"", "png"} }

\* One source image is uploaded; the thumbnails are of it and of their results.
NextThumb ==
  \/ /\ pc[1] = "idle" => nextID = 1
     /\ UploadFile(1, ResizeFiles, RaceUploadRequests, NoFailure)
  \/ ProcessImage(1, ThumbnailRequests, FALSE, NoFailure)

SpecThumb == InitImages /\ [][NextThumb]_vars

\* Images below and above OptimizeSizeLimit, resizes of them to a width
\* above OptimizeMaxWidth, and OptimizeImage on the rows there are.
PngS == [data |-> <<"pngS">>, len |-> EncodedSize, format |-> "png", size |-> <<4, 3>>]

OptimizeFiles ==
  { [content |-> PngA, filename |-> <<"a", ".png">>],
    [content |-> PngS, filename |-> <<"a", ".png">>],
    [content |-> TxtD, filename |-> <<"notes", ".txt">>] }

WideRequests ==
  { [processType |-> "resize", width |-> Ptr(OptimizeMaxWidth + 1), height |-> Nil,
     watermarkText |-> "", outputFormat |-> ""] }

NextOptimize ==
  \/ UploadFile(1, OptimizeFiles, RaceUploadRequests, NoFailure)
  \/ ProcessImage(1, WideRequests, FALSE, NoFailure)
  \/ OptimizeImage(1)

SpecOptimize == Init /\ [][NextOptimize]_vars

\* Uploads whose inserts fail at will, with soft deletes and restores between
\* them.
NextDedup ==
  \/ UploadFile(1, RaceFiles, RaceUploadRequests, AnyFailure)
  \/ SoftDelete(1)
  \/ Restore(1)

SpecDedup == InitImages /\ [][NextDedup]_vars

\* Batches of files that upload, files of a type that is refused, and both;
\* with requests that pass validation and one that does not.
BatchFiles ==
  { [content |-> PngA, filename |-> <<"a", ".png">>],
    [content |-> JpgB, filename |-> <<"raw", "">>],
    [content |-> TxtD, filename |-> <<"notes", ".txt">>] }

BatchLists ==
  UNION {[1..n -> BatchFiles] : n \in 0..MaxBatchLen}
  \cup {TooManyFiles(file) : file \in BatchFiles}

BatchRequests == RaceUploadRequests \cup {r \in UploadRequests : r.usageType = ""}

NextBatch == UploadMultipleFiles(1, BatchLists, BatchRequests, AnyFailure)

SpecBatch == InitImages /\ [][NextBatch]_vars

\* One call after the other, the I/O steps failing at will.
NextFail ==
  \/ UploadFile(1, RaceFiles, RaceUploadRequests, AnyFailure)
  \/ ProcessImage(1, RaceProcessRequests, TRUE, AnyFailure)

SpecFail == InitImages /\ [][NextFail]_vars

\* ------------------------------------------------------------------ properties
\* An UploadFile call that got past the validation, size and type checks.
UploadAccepted(r) ==
  /\ r.op = "UploadFile"
  /\ r.result \notin {"ValidationFailed", "FileTooLarge", "UnsupportedType"}

\* The paths on disk whose bytes have that content hash.
FilesHolding(hash) == {p \in DOMAIN disk : calculateHash(disk[p]) = hash}

RowsWithHash(hash) == {id \in IDs : media[id].hash = hash}

AllIdle == \A w \in Workers : Idle(w)

\* C1: every one of the concurrent UploadFile calls with the same content
\* returns success, and once all calls have returned the registry holds
\* exactly one row for the hash and the disk exactly one file for it, at the
\* path of that row.
C1_ConcurrentUploadsAllSucceed ==
  /\ UploadAccepted(out) => out.result = "ok"
  /\ AllIdle =>
       \A hash \in {calculateHash(f.content) : f \in RaceFiles} :
         RowsWithHash(hash) # {} =>
           /\ Cardinality(RowsWithHash(hash)) = 1
           /\ FilesHolding(hash) = {media[id].path : id \in RowsWithHash(hash)}

\* C3: no two rows of the registry have the same hash, whatever their status,
\* and a Create whose hash is already registered fails and adds no row.
HashUniqueRows == \A i, j \in IDs : media[i].hash = media[j].hash => i = j

CreateRefused ==
  \A w \in Workers :
    (/\ pc[w] \in {"up_create", "pi_create"}
     /\ pc'[w] # pc[w]
     /\ \E id \in IDs : media[id].hash = call[w].mediaFile.hash)
    => /\ media' = media
       /\ pc'[w] \in {"up_cleanup", "pi_cleanup"}

C3_HashUnique == []HashUniqueRows /\ [][CreateRefused]_vars

\* A Create has been refused because of the hash of a soft-deleted row.
C3_Witness ==
  \E w \in Workers :
    /\ pc[w] \in {"up_cleanup", "pi_cleanup"}
    /\ \E id \in IDs : /\ media[id].hash = call[w].mediaFile.hash
                       /\ media[id].status = "deleted"

C5_RowsHaveBytes ==
  \A id \in IDs :
    /\ media[id].path \in DOMAIN disk
    /\ media[id].hash.alg = "md5" => calculateHash(disk[media[id].path]) = media[id].hash

\* C2: of two UploadFile calls made one after the other with the same bytes
\* both succeed and return the same MediaFile ID; the first reports the file
\* as created, the second as existed; the second writes nothing to disk and
\* adds no row, and one file only holds that content on disk.
C2_Returned ==
  UploadAccepted(out) =>
    /\ out.result = "ok"
    /\ out.hash \in DOMAIN firstUpload
    /\ Deref(out.media).id = firstUpload[out.hash]
    /\ Cardinality(RowsWithHash(out.hash)) = 1
    /\ Cardinality(FilesHolding(out.hash)) = 1

C2_Step ==
  /\ UploadAccepted(out') =>
       /\ out'.result = "ok"
       /\ IF out'.hash \in DOMAIN firstUpload
          THEN out'.msg = "existed" /\ ~out'.wrote
          ELSE out'.msg = "created" /\ out'.wrote
  /\ (pc[1] = "up_hit_usage" \/ pc'[1] = "up_hit_usage") => UNCHANGED <<media, disk>>

C2_SequentialUploads == []C2_Returned /\ [][C2_Step]_vars

\* The second upload of some bytes has returned the ID of the first.
C2_Witness ==
  /\ out.op = "UploadFile"
  /\ out.result = "ok"
  /\ out.msg = "existed"
  /\ Deref(out.media).id = firstUpload[out.hash]
  /\ Cardinality(FilesHolding(out.hash)) = 1

\* C6: DeleteMedia on an existing media with at least one usage returns
\* success and sets the status of the row to deleted; the file stays on disk
\* and the row stays in the registry.
C6_DeleteInUseSoftDeletes ==
  (/\ out.op = "DeleteMedia"
   /\ out.media # Nil
   /\ \E u \in usages : u.mediaID = out.id)
  => /\ out.result = "ok"
     /\ out.id \in IDs
     /\ media[out.id].status = "deleted"
     /\ media[out.id].path \in DOMAIN disk

\* C7: DeleteMedia on an existing media with no usage returns success and
\* removes the file at the storage path and the row, so that GetByID then
\* finds nothing.
C7_DeleteUnusedRemoves ==
  (/\ out.op = "DeleteMedia"
   /\ out.media # Nil
   /\ ~ \E u \in usages : u.mediaID = out.id)
  => /\ out.result = "ok"
     /\ GetByID(out.id) = Nil
     /\ Deref(out.media).path \notin DOMAIN disk

\* C8: SoftDelete(id) with Restore(id) right after it brings the row of an
\* active media back as it was (hash, path, size, alternative text, caption,
\* public flag), and neither step touches the disk.
C8_Step ==
  /\ out'.op \in {"SoftDelete", "Restore"} => disk' = disk
  /\ (/\ out.op = "SoftDelete"
      /\ out.before # Nil
      /\ out'.op = "Restore"
      /\ out'.id = out.id)
     => /\ media[out.id].status = "deleted"
        /\ out.id \in DOMAIN media'
        /\ media'[out.id] = [Deref(out.before) EXCEPT !.status = "active"]
        /\ \A id \in DOMAIN media' \ {out.id} : media'[id] = media[id]

C8_SoftDeleteRestore == [][C8_Step]_vars

\* Restore has brought back a soft-deleted row that has metadata of its own.
C8_Witness ==
  /\ out.op = "Restore"
  /\ out.before # Nil
  /\ Deref(out.before).status = "deleted"
  /\ media[out.id].status = "active"
  /\ media[out.id].alt = "logo"
  /\ ~media[out.id].isPublic

\* C9: UploadFile rejects as too large every content of MaxFileSize+1 bytes
\* or more, accepts a content of exactly MaxFileSize bytes, and a size
\* rejection leaves the registry, the usages and the disk as they were.
C9_Step ==
  (out'.op = "UploadFile" /\ out'.result # "ValidationFailed") =>
    /\ out'.content.len >= MaxFileSize + 1 => out'.result = "FileTooLarge"
    /\ out'.content.len <= MaxFileSize => out'.result # "FileTooLarge"
    /\ out'.result = "FileTooLarge" => UNCHANGED <<media, usages, disk>>

C9_SizeLimit == [][C9_Step]_vars

\* A content of MaxFileSize+1 bytes has been rejected while a content of
\* exactly MaxFileSize bytes is registered.
C9_Witness ==
  /\ out.op = "UploadFile"
  /\ out.result = "FileTooLarge"
  /\ out.content.len = MaxFileSize + 1
  /\ \E id \in IDs : media[id].size = MaxFileSize

\* C10: UploadFile returns the unsupported-type error and changes nothing
\* when the detected MIME type starts with none of the allowed prefixes, so
\* always when the allow-list is empty; no uploaded file is registered under
\* a type that is not allowed.
NoAllowedPrefix(mime) ==
  \A i \in 1..Len(config.allowedTypes) : ~HasPrefix(mime, config.allowedTypes[i])

C10_Stored ==
  \A id \in IDs : media[id].hash.alg = "md5" => ~NoAllowedPrefix(media[id].mime)

C10_Step ==
  (/\ out'.op = "UploadFile"
   /\ out'.result \notin {"ValidationFailed", "FileTooLarge"}
   /\ NoAllowedPrefix(out'.mime))
  => /\ out'.result = "UnsupportedType"
     /\ UNCHANGED <<media, usages, disk>>

C10_UnsupportedType == []C10_Stored /\ [][C10_Step]_vars

\* An image/jpeg upload has been rejected under an allow-list that has
\* image/png in it.
C10_Witness ==
  /\ out.op = "UploadFile"
  /\ out.result = "UnsupportedType"
  /\ out.mime = <<"image/", "jpeg">>
  /\ config.allowedTypes # << >>

\* C11: whenever UploadFile returns success for a request with a usage type,
\* a MediaUsage row refers to the returned MediaFile with that usage type,
\* target and uploader, for a new file and for one that existed.
UsageRecorded(r) ==
  \E u \in usages :
    /\ u.mediaID = Deref(r.media).id
    /\ u.usageType = r.req.usageType
    /\ u.targetID = r.req.targetID
    /\ u.uploader = r.uploader

C12_Returned ==
  (out.op = "UploadFile" /\ out.result = "CreateFailed") =>
    /\ out.wrote
    /\ generateStoragePath(out.filename, out.hash) \notin DOMAIN disk

\* The steps of a call that ends in the failed insert.
C12_Step ==
  \A w \in Workers :
    <<pc[w], pc'[w]>> \in { <<"idle", "up_write">>, <<"up_write", "up_create">>,
                            <<"up_create", "up_cleanup">>, <<"up_cleanup", "idle">> }
    => UNCHANGED <<media, usages>>

C12_FailedInsert == []C12_Returned /\ [][C12_Step]_vars

\* An insert has failed after the bytes were written and the call has returned.
C12_Witness ==
  /\ out.op = "UploadFile"
  /\ out.result = "CreateFailed"
  /\ out.wrote
  /\ RowsWithHash(out.hash) = {}

\* C13: no step of ProcessImage, whether the call succeeds or fails, changes
\* the row of the source MediaFile or the bytes at the storage path of the
\* source.
SourceKept(id, src) ==
  /\ id \in IDs => (id \in DOMAIN media' /\ media'[id] = media[id])
  /\ (src \in DOMAIN disk) <=> (src \in DOMAIN disk')
  /\ src \in DOMAIN disk => disk'[src] = disk[src]

C13_Step ==
  \A w \in Workers :
    /\ (pc[w] = "idle" /\ (pc'[w] = "pi_open" \/ (out'.op = "ProcessImage" /\ out'.worker = w)))
       => UNCHANGED <<media, disk>>
    /\ (pc[w] \in {"pi_open", "pi_save", "pi_create", "pi_cleanup"} /\ pc'[w] # pc[w])
       => SourceKept(call[w].id, call[w].media.path)

C13_SourceUntouched == [][C13_Step]_vars

\* A ProcessImage call has failed while saving its result and the source is
\* in the registry with its bytes on disk.
C13_Witness ==
  /\ out.op = "ProcessImage"
  /\ out.result = "SaveFailed"
  /\ out.id \in IDs
  /\ media[out.id].path \in DOMAIN disk
  /\ calculateHash(disk[media[out.id].path]) = media[out.id].hash

\* C14: every ProcessImage call on an existing, decodable image with valid
\* parameters succeeds and adds one new row with a new ID, also when the same
\* transform has been applied before: the insert of a derived file is never
\* refused as a duplicate hash.
C14_TransformsRegister ==
  (/\ out.op = "ProcessImage"
   /\ out.result \notin {"NotFound", "NotImage", "OpenFailed", "DecodeFailure",
                         "InvalidTransformParameters", "SaveFailed"})
  => /\ out.result = "ok"
     /\ Deref(out.media).id \in IDs
     /\ Deref(out.media).id # out.id

\* C15: no step writes to the storage path of a row that is in the registry:
\* saveFileToDisk and saveProcessedImage only ever create files at paths no
\* row has.
RegisteredPaths == {media[id].path : id \in IDs}

WritesTo(w) ==
  IF pc[w] = "pi_save" THEN {call[w].path}
  ELSE IF pc[w] = "up_write" THEN {generateStoragePath(call[w].filename, call[w].hash)}
  ELSE {}

C15_Step == \A w \in Workers : pc'[w] # pc[w] => WritesTo(w) \cap RegisteredPaths = {}

C15_NoRewrite == [][C15_Step]_vars

\* C16: a resize with only a width W on a source of w0 by h0 pixels gives an
\* image of width W and of height h0 * W / w0 rounded to the nearest integer.
NearestTo(h, num, den) == 2 * den * h - 2 * num \in (0 - den)..den

C16_ResizeRounds ==
  (/\ out.op = "ProcessImage"
   /\ out.result = "ok"
   /\ out.req.processType = "resize"
   /\ out.req.width # Nil
   /\ out.req.height = Nil)
  => LET source == disk[media[out.id].path].size
         row == Deref(out.media)
     IN  /\ row.width = out.req.width
         /\ NearestTo(Deref(row.height), source[2] * Deref(out.req.width), source[1])

\* C17: a watermark transform that returns success without having drawn the
\* text returns a result that says so: its message is not the message of a
\* transform that was applied.
C17_WatermarkSurfaced ==
  (/\ out.op = "ProcessImage"
   /\ out.result = "ok"
   /\ out.req.processType = "watermark"
   /\ ~out.rendered)
  => out.message # ProcessedMessage

\* C19: whenever UploadFile or ProcessImage returns an error, the file the
\* call has created or written is not on disk.
C19_NoFileLeftOnError ==
  /\ (out.op = "ProcessImage" /\ out.result # "ok" /\ out.path # Nil)
     => Deref(out.path) \notin DOMAIN disk
  /\ (out.op = "UploadFile" /\ out.result \in {"WriteFailed", "CreateFailed"})
     => generateStoragePath(out.filename, out.hash) \notin DOMAIN disk

\* C18: a soft-deleted MediaFile is not among the rows that GetMediaList
\* without a status filter, SearchMedia, ListPublic and GetRecent return and
\* is not counted by GetStats, while its row and its bytes remain.
C18_SoftDeletedHidden ==
  /\ (\/ out.op \in {"SearchMedia", "ListPublic", "GetRecent"}
      \/ out.op = "GetMediaList" /\ out.result = "ok" /\ out.req.status = "")
     => \A i \in 1..Len(out.medias) : out.medias[i].status # "deleted"
  /\ (out.op = "GetMediaStats" /\ out.uploaderID = Nil)
     => out.stats.totalCount = Cardinality({id \in IDs : media[id].status # "deleted"})
  /\ \A id \in IDs : media[id].status = "deleted" => media[id].path \in DOMAIN disk

\* C20: the status of a MediaFile changes only in a step of SoftDelete,
\* Restore or DeleteMedia: no step of UploadFile, UpdateMedia or ProcessImage
\* changes the status of a row, whatever SoftDelete or Restore does between
\* the read and the save of an UpdateMedia, and a row starts out active.
StatusChanged == \E id \in IDs \cap DOMAIN media' : media'[id].status # media[id].status

C20_Step ==
  /\ StatusChanged => (out'.op \in {"SoftDelete", "Restore", "DeleteMedia"})
  /\ \A id \in DOMAIN media' \ IDs : media'[id].status = "active"

C21_UpdateSucceeds ==
  (out.op = "UpdateMedia" /\ out.media # Nil)
  => /\ out.result = "ok"
     /\ out.id \in IDs
     /\ Deref(out.media) = media[out.id]

\* C22: resize is symmetric in width and height: the size a resize gives is
\* the transpose of the size the same resize gives with its width and height
\* arguments swapped on the transposed source, and a resize with only a
\* height H gives that height.
Transposed(size) == <<size[2], size[1]>>

ResizeReturned ==
  /\ out.op = "ProcessImage"
  /\ out.result = "ok"
  /\ out.req.processType = "resize"

C22_ResizeSymmetric ==
  ResizeReturned
  => LET source == disk[media[out.id].path].size
         row == Deref(out.media)
         size == <<Deref(row.width), Deref(row.height)>>
     IN  /\ resizeImage(Transposed(source), out.req.height, out.req.width) = Transposed(size)
         /\ out.req.height # Nil => row.height = out.req.height

\* A resize with only a height has returned a width that is not the exact
\* quotient.
C22_Witness ==
  /\ ResizeReturned
  /\ out.req.width = Nil
  /\ out.req.height # Nil
  /\ LET source == disk[media[out.id].path].size
     IN  Deref(Deref(out.media).width) * source[2] # source[1] * Deref(out.req.height)

\* C23: a resize request with neither a width nor a height fails: no step of
\* such a call creates or changes a file or a MediaFile row, the call never
\* returns success, and on a source that is a decodable image it returns the
\* invalid-parameters error.
BareResize(req) == req.processType = "resize" /\ req.width = Nil /\ req.height = Nil

C23_Step ==
  /\ (\E w \in Workers :
        \/ call[w].op = "ProcessImage" /\ BareResize(call[w].req)
        \/ call'[w].op = "ProcessImage" /\ BareResize(call'[w].req))
     => UNCHANGED <<media, nextID, disk>>
  /\ (out'.op = "ProcessImage" /\ BareResize(out'.req))
     => /\ UNCHANGED <<media, nextID, disk>>
        /\ out'.result # "ok"
        /\ (/\ out'.id \in IDs
            /\ media[out'.id].fileType = "image"
            /\ media[out'.id].path \in DOMAIN disk
            /\ Decodable(disk[media[out'.id].path]))
           => out'.result = "InvalidTransformParameters"

C23_BareResizeFails == [][C23_Step]_vars

\* A resize without dimensions on a decodable image has returned.
C23_Witness ==
  /\ out.op = "ProcessImage"
  /\ BareResize(out.req)
  /\ out.result = "InvalidTransformParameters"
  /\ Decodable(disk[media[out.id].path])

\* C24: a thumbnail request with neither a width nor a height gives an image
\* of 200 by 200; with one or both dimensions it gives the size the resize
\* rule gives for them; the result is encoded as JPEG unless the request
\* names another output format, which it is then encoded in.
ThumbnailReturned ==
  /\ out.op = "ProcessImage"
  /\ out.result = "ok"
  /\ out.req.processType = "thumbnail"

C24_Thumbnail ==
  ThumbnailReturned
  => LET source == disk[media[out.id].path].size
         row == Deref(out.media)
         size == <<Deref(row.width), Deref(row.height)>>
         format == IF out.req.outputFormat = "" THEN "jpeg" ELSE out.req.outputFormat
     IN  /\ size = IF out.req.width = Nil /\ out.req.height = Nil
                  THEN <<200, 200>>
                  ELSE resizeImage(source, out.req.width, out.req.height)
         /\ disk[row.path].size = size
         /\ disk[row.path].format = format
         /\ row.mime = getMimeTypeByFormat(format)

\* A thumbnail without dimensions has been made, 200 by 200 and JPEG.
C24_Witness ==
  /\ ThumbnailReturned
  /\ out.req.width = Nil
  /\ out.req.height = Nil
  /\ out.req.outputFormat = ""
  /\ Deref(out.media).width = Ptr(200)
  /\ disk[Deref(out.media).path].format = "jpeg"

\* C25: OptimizeImage issues one transform with JPEG output: compress at
\* quality 75 when the recorded size of the source exceeds 5 * 1024 * 1024
\* bytes; otherwise resize to width 2048 when the source's width is recorded
\* and exceeds 2048; otherwise compress at quality 85. It fails without a
\* transform when the media does not exist or is not an image.
C25_Step ==
  \A w \in Workers :
    /\ (pc[w] = "idle" /\ pc'[w] = "oi_call")
       => LET m == media[call'[w].id]
              req == call'[w].req
          IN  /\ call'[w].id \in IDs /\ m.fileType = "image"
              /\ req.outputFormat = "jpeg"
              /\ IF m.size > 5 * 1024 * 1024
                   THEN req.processType = "compress" /\ req.quality = Ptr(75)
                 ELSE IF m.width # Nil /\ Deref(m.width) > 2048
                   THEN /\ req.processType = "resize"
                        /\ req.width = Ptr(2048) /\ req.height = Nil
                 ELSE req.processType = "compress" /\ req.quality = Ptr(85)
    /\ (pc[w] = "idle" /\ out'.op = "OptimizeImage" /\ out'.worker = w)
       => /\ out'.result \in {"NotFound", "NotImage"}
          /\ out'.id \notin IDs \/ media[out'.id].fileType # "image"
          /\ UNCHANGED <<media, nextID, disk>>
    /\ (pc[w] = "oi_call" /\ pc'[w] # "oi_call")
       => \/ /\ pc'[w] = "pi_open"
             /\ call'[w].id = call[w].id /\ call'[w].req = call[w].req
          \/ /\ pc'[w] = "idle"
             /\ out'.op = "ProcessImage" /\ out'.result \in {"NotFound", "NotImage"}
    /\ (pc[w] # "idle" /\ pc[w] # "oi_call") => pc'[w] # "oi_call"

C25_Optimize == [][C25_Step]_vars

\* OptimizeImage has chosen the compression at quality 75 for a row that is
\* both larger than the size limit and wider than the width limit.
C25_Witness ==
  \E w \in Workers :
    /\ pc[w] = "oi_call"
    /\ media[call[w].id].size > OptimizeSizeLimit
    /\ media[call[w].id].width # Nil
    /\ Deref(media[call[w].id].width) > OptimizeMaxWidth
    /\ call[w].req.quality = Ptr(75)

\* C26: an UploadFile of content whose hash is that of a soft-deleted
\* MediaFile takes the dedup path: it returns that row, still soft-deleted,
\* writes no bytes, adds no MediaFile row and records a usage against the
\* row.
DeletedWithHash(hash) == {id \in IDs : media[id].hash = hash /\ media[id].status = "deleted"}

C26_Step(always) ==
  \A w \in Workers :
    /\ (/\ pc[w] = "idle"
        /\ pc'[w] # "idle"
        /\ call'[w].op = "UploadFile"
        /\ DeletedWithHash(call'[w].hash) # {})
       => /\ pc'[w] = "up_hit_usage"
          /\ call'[w].existing.id \in DeletedWithHash(call'[w].hash)
    /\ (/\ pc[w] = "up_hit_usage"
        /\ pc'[w] # "up_hit_usage"
        /\ call[w].existing.id \in DeletedWithHash(call[w].hash))
       => /\ pc'[w] = "idle"
          /\ out'.op = "UploadFile" /\ out'.result = "ok"
          /\ out'.media = Ptr(media[call[w].existing.id])
          /\ UNCHANGED <<media, nextID, disk>>
          /\ (always \/ ~out'.usageErr)
             => \E u \in usages' \ usages :
                  /\ u.mediaID = call[w].existing.id
                  /\ u.usageType = call[w].req.usageType
                  /\ u.targetID = call[w].req.targetID

C27_SizeIsFileLength ==
  \A id \in IDs :
    media[id].path \in DOMAIN disk => media[id].size = disk[media[id].path].len

\* C29: GetMediaByID returns a MediaFile that is not public only when the
\* caller's user ID is present and is the uploader's, and a permission error
\* otherwise; it returns a public MediaFile to every caller, with a user ID
\* or without; the call changes no state.
C29_Step ==
  out'.op = "GetMediaByID"
  => /\ UNCHANGED <<config, media, nextID, usages, nextUsageID, disk>>
     /\ out'.id \in IDs
        => LET m == media[out'.id]
               owner == out'.userID # Nil /\ out'.userID = m.uploader
           IN  IF m.isPublic \/ owner
               THEN out'.result = "ok" /\ out'.media = Ptr(m)
               ELSE out'.result = "Forbidden" /\ out'.media = Nil

C29_GetMediaByID == [][C29_Step]_vars

\* A file that is not public has been returned to its uploader.
C29_Witness ==
  /\ out.op = "GetMediaByID"
  /\ out.result = "ok"
  /\ ~Deref(out.media).isPublic
  /\ out.userID = Deref(out.media).uploader

\* C30: UploadMultipleFiles rejects an empty list and a list of more than 10
\* files without uploading anything; otherwise it attempts every file in
\* input order, also after a failure, returns the results of the successful
\* uploads in input order, and returns an error only when every file failed.
RECURSIVE Successful(_)
Successful(attempts) ==
  IF attempts = << >> THEN << >>
  ELSE (IF Head(attempts).result = "ok" THEN <<Head(attempts)>> ELSE << >>)
       \o Successful(Tail(attempts))

C30_Step ==
  out'.op = "UploadMultipleFiles"
  => IF Len(out'.files) = 0 \/ Len(out'.files) > 10
     THEN /\ out'.result \in {"NoFiles", "TooMany"}
          /\ batch[out'.worker] = Nil
          /\ UNCHANGED <<media, nextID, usages, nextUsageID, disk>>
     ELSE /\ Len(out'.attempts) = Len(out'.files)
          /\ \A i \in 1..Len(out'.files) :
               /\ out'.attempts[i].content = out'.files[i].content
               /\ out'.attempts[i].filename = out'.files[i].filename
          /\ IF Successful(out'.attempts) = << >>
             THEN out'.result = "AllFailed" /\ out'.results = << >>
             ELSE out'.result = "ok" /\ out'.results = Successful(out'.attempts)

C30_UploadMultipleFiles == [][C30_Step]_vars

\* A batch has returned the result of its second file after its first file
\* failed.
C30_Witness ==
  /\ out.op = "UploadMultipleFiles"
  /\ out.result = "ok"
  /\ Len(out.attempts) = 2
  /\ out.attempts[1].result # "ok"
  /\ out.results = <<out.attempts[2]>>

====
